---- MODULE Spec2Model ----
(***************************************************************************)
(* A model of rcmpsptr (src/rcmpsptr/src/cmpsptr.rs): 4-byte compressed    *)
(* pointers.  The address mask codec, the fallback pointer list and the    *)
(* ownership wrappers CmpsRef, CmpsUnq, CmpsCnt and CmpsShr.               *)
(*                                                                         *)
(* Words are scaled: a compressed handle (u32) is HandleBits wide and a    *)
(* native address (usize) is twice that, as 32 is to 64.  TLC's integers   *)
(* stop at 2^31, so the 35-bit shifts of the code cannot be written with   *)
(* the real widths; every formula below is stated for any HandleBits.      *)
(***************************************************************************)
EXTENDS Integers, Sequences, FiniteSets, TLC

\* ------------------------------------------------------------------ bounds
\* Width of a compressed handle in bits (u32 in the code).
HandleBits == 5
\* Length the pointer list may grow to in a run.
MaxList == 2
\* Wrappers alive at one time.
MaxHandles == 2
\* Nested detach calls the stack holds before it overflows.
MaxDepth == 3
\* Largest count the Counter specification drives a counter to.
MaxCount == 8

\* ---------------------------------------------------------------- machine
UsizeBits == 2 * HandleBits
\* usize::MAX, the "mask not set" value of the two mask statics.
UsizeMax == 2^UsizeBits - 1
\* (x as u32)
AsU32(x) == x % 2^HandleBits
Shr(x, n) == x \div 2^n
Shl(x, n) == (x * 2^n) % 2^UsizeBits
RECURSIVE BitOr(_, _)
BitOr(a, b) ==
    IF a = 0 THEN b
    ELSE IF b = 0 THEN a
    ELSE (IF a % 2 = 1 \/ b % 2 = 1 THEN 1 ELSE 0) + 2 * BitOr(a \div 2, b \div 2)
BitAnd1(a) == a % 2
Abs(n) == IF n < 0 THEN -n ELSE n

\* The compression levels CmpsPtr::new accepts.
MinLevel == -3
MaxLevel == 3
Levels == MinLevel..MaxLevel

\* One window of 2^HandleBits bytes; an address is Window * k + offset.
Window == 2^HandleBits
\* Addresses the allocator hands out (8-byte aligned, in several windows).
HeapPool == {8, 16, Window + 8, 8 * Window + 8}
\* Addresses of caller-owned values a CmpsRef may be given.
RefPool == {6, 12, 8 * Window + 8, 8 * Window + 12}
\* An address aligned as the level assumes: level = log2 of the alignment.
Aligned(level, a) == a % 2^Abs(level) = 0

\* --------------------------------------------------------- pure functions
listed(ptr) == BitAnd1(ptr) = 1

cmps_level(level) == IF level < 1 THEN Abs(level) ELSE level - 1

\* The result of a panic (an operation that unwinds without a value).
PANIC == -1

\* ptr_list[i] with i counted from 0; an index out of range panics.
At(list, i) == IF i >= 0 /\ i < Len(list) THEN list[i + 1] ELSE PANIC

\* The first index in from..Len(list)-1 (from 0) whose slot is 0, or -1.
RECURSIVE FirstZero(_, _)
FirstZero(list, from) ==
    IF from >= Len(list) THEN -1
    ELSE IF list[from + 1] = 0 THEN from
    ELSE FirstZero(list, from + 1)

\* list_ptr with the cursor left where the push found it: the list's length
\* before the push instead of after it.
list_ptr_stale(list, nullIdx, listOnly, ptr) ==
    LET i == FirstZero(list, nullIdx)
        n == IF i >= 0 THEN i + 1 ELSE Len(list) + 1
    IN  [ list |-> IF i >= 0 THEN [list EXCEPT ![i + 1] = ptr] ELSE Append(list, ptr),
          nullIdx |-> IF i >= 0 THEN i + 1 ELSE Len(list),
          ret |-> IF listOnly THEN AsU32(n) ELSE AsU32(BitOr(Shl(n, 1), 1)) ]

\* list_ptr::<LIST_ONLY>(ptr): the list, the cursor and the value returned.
list_ptr(list, nullIdx, listOnly, ptr) ==
    LET i == FirstZero(list, nullIdx)
        n == IF i >= 0 THEN i + 1 ELSE Len(list) + 1
    IN  [ list |-> IF i >= 0 THEN [list EXCEPT ![i + 1] = ptr] ELSE Append(list, ptr),
          nullIdx |-> n,
          ret |-> IF listOnly THEN AsU32(n) ELSE AsU32(BitOr(Shl(n, 1), 1)) ]

\* unlist_ptr::<CMPS_LEVEL>(ptr): the list afterwards, and whether the index
\* was out of range (a panic, the list untouched).
unlist_ptr(list, level, ptr) ==
    LET i == IF level = 0 THEN ptr - 1
             ELSE IF level > 0 /\ listed(ptr) THEN Shr(ptr, 1) - 1
             ELSE -2
    IN  IF i = -2 THEN [list |-> list, panic |-> FALSE]
        ELSE IF At(list, i) = PANIC THEN [list |-> list, panic |-> TRUE]
        ELSE [list |-> [list EXCEPT ![i + 1] = 0], panic |-> FALSE]

\* The high-order bits compress! compares with the mask.
HighBits(level, ptr) ==
    LET shift_bits == HandleBits + cmps_level(level)
    IN  Shl(Shr(ptr, shift_bits), shift_bits)

\* compress! without its strict mode: a negative level falls back to the list.
compress_lenient(mask, list, nullIdx, level, ptr) ==
    IF mask = UsizeMax \/ mask = Shl(Shr(ptr, HandleBits + cmps_level(level)),
                                     HandleBits + cmps_level(level))
    THEN [ mask |-> Shl(Shr(ptr, HandleBits + cmps_level(level)),
                        HandleBits + cmps_level(level)),
           list |-> list, nullIdx |-> nullIdx,
           ret |-> AsU32(Shr(ptr, cmps_level(level))) ]
    ELSE LET r == list_ptr(list, nullIdx, FALSE, ptr)
         IN  [ mask |-> mask, list |-> r.list, nullIdx |-> r.nullIdx, ret |-> r.ret ]

\* compress! with a mask that is set again when an address misses it.
compress_recalibrate(mask, list, nullIdx, level, ptr) ==
    [ mask |-> Shl(Shr(ptr, HandleBits + cmps_level(level)),
                   HandleBits + cmps_level(level)),
      list |-> list, nullIdx |-> nullIdx,
      ret |-> AsU32(Shr(ptr, cmps_level(level))) ]

\* compress!(mask, ptr) for CMPS_LEVEL = level: the mask, the list and the
\* cursor afterwards, and the handle returned (PANIC: none).
compress(mask, list, nullIdx, level, ptr) ==
    IF mask = UsizeMax
    THEN [ mask |-> HighBits(level, ptr), list |-> list, nullIdx |-> nullIdx,
           ret |-> AsU32(Shr(ptr, cmps_level(level))) ]
    ELSE IF mask = HighBits(level, ptr)
    THEN [ mask |-> mask, list |-> list, nullIdx |-> nullIdx,
           ret |-> AsU32(Shr(ptr, cmps_level(level))) ]
    ELSE IF level < 0
    THEN [ mask |-> mask, list |-> list, nullIdx |-> nullIdx, ret |-> PANIC ]
    ELSE LET r == list_ptr(list, nullIdx, FALSE, ptr)
         IN  [ mask |-> mask, list |-> r.list, nullIdx |-> r.nullIdx, ret |-> r.ret ]

\* apply_global_mask::<NEW_ALLOC, CMPS_LEVEL>(ptr)
apply_global_mask(newMask, oldMask, list, newAlloc, level, ptr) ==
    IF level = 0 THEN At(list, ptr - 1)
    ELSE IF level > 0 /\ listed(ptr) THEN At(list, Shr(ptr, 1) - 1)
    ELSE IF newAlloc THEN BitOr(ptr, newMask)
    ELSE BitOr(ptr, oldMask)

\* ---------------------------------------------------------------- Counter
\* A count is a u32.  Past u32::MAX or below 0 the plain counter's arithmetic
\* wraps (release build); no run here drives a count that far.
U32(x) == x % 2^HandleBits
Min(a, b) == IF a < b THEN a ELSE b

\* impl Counter for u32 (and for Test in main.rs): the count stored
\* afterwards and the value returned.
u32_increase_count(c) == [cnt |-> U32(c + 1), ret |-> U32(c + 1)]
u32_decrease_count(c) == [cnt |-> U32(c - 1), ret |-> U32(c - 1)]
u32_current_count(c) == [cnt |-> c, ret |-> c]
u32_reset_count(c) == [cnt |-> 1, ret |-> 0]

\* impl Counter for AtomicU32: fetch_add and fetch_min return the value
\* held before the operation.
atomic_increase_count(c) == [cnt |-> U32(c + 1), ret |-> c]
atomic_decrease_count(c) == [cnt |-> Min(c, 1), ret |-> c]
atomic_current_count(c) == [cnt |-> c, ret |-> c]
atomic_reset_count(c) == [cnt |-> 1, ret |-> 0]

\* One Counter method of the implementation chosen.
CounterOp(atomic, op, c) ==
    CASE op = "increase" -> IF atomic THEN atomic_increase_count(c) ELSE u32_increase_count(c)
      [] op = "decrease" -> IF atomic THEN atomic_decrease_count(c) ELSE u32_decrease_count(c)
      [] op = "current" -> IF atomic THEN atomic_current_count(c) ELSE u32_current_count(c)
      [] op = "reset" -> IF atomic THEN atomic_reset_count(c) ELSE u32_reset_count(c)

\* ------------------------------------------------------------------ state
VARIABLES
    GLOBAL_NEW_MASK,  \* _GLOBAL_NEW_MASK
    GLOBAL_MASK,      \* _GLOBAL_MASK
    PTR_LIST,         \* _PTR_LIST
    NULL_IDX,         \* _NULL_IDX
    heap,             \* the allocator: address -> block
    hs,               \* the program's wrapper variables: slot -> wrapper
    last,             \* the operation that made this state, and its outcome
    peak,             \* most slots of PTR_LIST in use at one time so far
    ctr,              \* a u32 and an AtomicU32 counter driven by the same calls
    th,               \* the threads of a concurrent program: id -> locals
    cpy               \* the copy_nonoverlapping call of one detach

vars == <<GLOBAL_NEW_MASK, GLOBAL_MASK, PTR_LIST, NULL_IDX, heap, hs, last, peak, ctr, th, cpy>>

Slots == 1..MaxHandles

NoBlock == [live |-> FALSE, x |-> 0, cnt |-> 0]
\* A wrapper variable: its type (CmpsRef, CmpsUnq, CmpsCnt, CmpsShr and the
\* const generics CMPS_LEVEL, COW, the Counter type), whether it holds a
\* wrapper now, the handles _ptr and _rfc, and the addresses they were
\* compressed from.
Wrapper(type, level, cow, atomic) ==
    [type |-> type, level |-> level, cow |-> cow, atomic |-> atomic,
     live |-> FALSE, ptr |-> 0, rfc |-> 0, addr |-> 0, raddr |-> 0]
\* What an operation left behind: its name, the wrapper variable, the address
\* it was about (compressed, or bound to the wrapper before) and the address of
\* the wrapper's separate counter block if it has one, its result, how it
\* ended ("ok", "panic", "abort", "crash"), the addresses it passed to
\* dealloc, the blocks it allocated and whether it read or wrote through an
\* address that is no live block.
Op(op, slot, addr, raddr, res, st, frees, allocs, wild) ==
    [op |-> op, slot |-> slot, addr |-> addr, raddr |-> raddr, res |-> res, st |-> st,
     frees |-> frees, allocs |-> allocs, wild |-> wild]
NoOp == Op("init", 0, 0, 0, 0, "ok", <<>>, 0, FALSE)
\* The two counters: the call last made, the counts before and after it and
\* the values it returned.
Counters(c) == [op |-> "init", plain |-> c, atomic |-> c, plainWas |-> c, atomicWas |-> c,
                plainRet |-> 0, atomicRet |-> 0]

\* Whether a wrapper's handles are compressed against _GLOBAL_NEW_MASK.
NewAlloc(h) == h.type # "ref"

InUse(list) == Cardinality({k \in 1..Len(list) : list[k] # 0})

\* CmpsPtr::get_ptr of a handle value ptr, in the current state.
get_ptr(newAlloc, level, ptr) ==
    apply_global_mask(GLOBAL_NEW_MASK, GLOBAL_MASK, PTR_LIST, newAlloc, level,
                      Shl(ptr, cmps_level(level)))

\* check_global_mask::<CMPS_LEVEL, NEW_ALLOC>(ptr), in the current state:
\* the mask of that origin, the list, the cursor and the handle.
check_global_mask(level, newAlloc, ptr) ==
    IF level = 0
    THEN LET r == list_ptr(PTR_LIST, NULL_IDX, TRUE, ptr)
         IN  [ mask |-> IF newAlloc THEN GLOBAL_NEW_MASK ELSE GLOBAL_MASK,
               list |-> r.list, nullIdx |-> r.nullIdx, ret |-> r.ret ]
    ELSE IF newAlloc
    THEN compress(GLOBAL_NEW_MASK, PTR_LIST, NULL_IDX, level, ptr)
    ELSE compress(GLOBAL_MASK, PTR_LIST, NULL_IDX, level, ptr)

\* The mask the code consults for the pair (level, origin): one static per
\* origin, whatever the level.
PairMask(level, newAlloc) == IF newAlloc THEN GLOBAL_NEW_MASK ELSE GLOBAL_MASK

InitStatics ==
    /\ GLOBAL_NEW_MASK = UsizeMax
    /\ GLOBAL_MASK = UsizeMax
    /\ PTR_LIST = <<>>
    /\ NULL_IDX = 0
    /\ heap = [a \in HeapPool |-> NoBlock]
    /\ last = NoOp
    /\ peak = 0

InitCounters == ctr = Counters(1)

\* A program of one thread that has not detached anything.
InitSingle == th = <<>> /\ cpy = <<>>

\* A program with CmpsRef and CmpsUnq variables of any levels.
Init ==
    /\ InitStatics
    /\ InitCounters
    /\ InitSingle
    /\ hs \in [Slots -> {Wrapper(t, l, FALSE, FALSE) : t \in {"ref", "unq"}, l \in Levels}]

\* The statics after a compress that returned r for the given origin.
SetCodec(r, newAlloc) ==
    /\ GLOBAL_NEW_MASK' = IF newAlloc THEN r.mask ELSE GLOBAL_NEW_MASK
    /\ GLOBAL_MASK' = IF newAlloc THEN GLOBAL_MASK ELSE r.mask
    /\ PTR_LIST' = r.list
    /\ NULL_IDX' = r.nullIdx
    /\ peak' = IF InUse(r.list) > peak THEN InUse(r.list) ELSE peak

\* ---------------------------------------------------------------- CmpsRef
\* CmpsRef::new(&mut t) and CmpsPtr::set_ptr(&mut z) through a CmpsRef:
\* compress the address of a caller-owned value and bind the wrapper to it.
\* Neither unlists the handle the variable held before.
RefSet(s, a) ==
    /\ hs[s].type = "ref"
    /\ Aligned(hs[s].level, a)
    /\ LET r == check_global_mask(hs[s].level, FALSE, a)
       IN  /\ Len(r.list) <= MaxList
           /\ SetCodec(r, FALSE)
           /\ hs' = IF r.ret = PANIC THEN hs
                    ELSE [hs EXCEPT ![s].live = TRUE, ![s].ptr = r.ret, ![s].addr = a]
           /\ last' = Op("compress", s, a, 0, r.ret,
                         IF r.ret = PANIC THEN "panic" ELSE "ok", <<>>, 0, FALSE)
    /\ UNCHANGED <<heap, ctr, th, cpy>>

\* ---------------------------------------------------------------- CmpsUnq
\* CmpsUnq::new(): new_alloc allocates, then compresses the address.
UnqNew(s, a) ==
    /\ hs[s].type = "unq"
    /\ ~hs[s].live
    /\ ~heap[a].live
    /\ LET r == check_global_mask(hs[s].level, TRUE, a)
       IN  /\ Len(r.list) <= MaxList
           /\ SetCodec(r, TRUE)
           /\ hs' = IF r.ret = PANIC THEN hs
                    ELSE [hs EXCEPT ![s].live = TRUE, ![s].ptr = r.ret, ![s].addr = a]
           /\ last' = Op("compress", s, a, 0, r.ret,
                         IF r.ret = PANIC THEN "panic" ELSE "ok", <<>>, 1, FALSE)
    /\ heap' = [heap EXCEPT ![a] = [NoBlock EXCEPT !.live = TRUE]]
    /\ UNCHANGED <<ctr, th, cpy>>

\* dealloc(p): a live block is released; any other address is not one the
\* allocator gave out and its heap is left as it was.
dealloc(hp, p) ==
    IF p \in DOMAIN hp /\ hp[p].live THEN [hp EXCEPT ![p] = NoBlock] ELSE hp

\* Drop for CmpsUnq: unlist the handle, then dealloc what it decompresses to.
UnqDrop(s) ==
    /\ hs[s].type = "unq"
    /\ hs[s].live
    /\ LET u == unlist_ptr(PTR_LIST, hs[s].level, hs[s].ptr)
           p == apply_global_mask(GLOBAL_NEW_MASK, GLOBAL_MASK, u.list, TRUE,
                    hs[s].level, Shl(hs[s].ptr, cmps_level(hs[s].level)))
       IN  /\ ~u.panic
           /\ PTR_LIST' = u.list
           /\ heap' = dealloc(heap, p)
           /\ last' = Op("drop", s, hs[s].addr, 0, p, "ok", <<p>>, 0, FALSE)
    /\ hs' = [hs EXCEPT ![s].live = FALSE, ![s].ptr = 0, ![s].addr = 0]
    /\ UNCHANGED <<GLOBAL_NEW_MASK, GLOBAL_MASK, NULL_IDX, peak, ctr, th, cpy>>

\* ------------------------------------------------- one operation's world
\* The outcome "the process crashed" of an access through a wild address.
CRASH == -2
\* What a read through a wild address may yield when the process goes on.
Garbage == {0, 2}
\* CMPS_LEVEL of the counter handle _rfc of a CmpsShr.
RfcLevel == 3

\* The statics, the heap and the wrapper self as one operation sees them:
\* first and then are the addresses the allocator hands out first (any free
\* ones), g the outcome of an access through a wild address; np and na are
\* the handle and the address of the latest new_alloc.
World(h, first, then, g) ==
    [nm |-> GLOBAL_NEW_MASK, list |-> PTR_LIST, nullIdx |-> NULL_IDX, heap |-> heap,
     level |-> h.level, cow |-> h.cow, atomic |-> h.atomic,
     ptr |-> h.ptr, rfc |-> h.rfc, addr |-> h.addr, raddr |-> h.raddr,
     np |-> 0, na |-> 0, pref |-> <<first, then>>, g |-> g,
     st |-> "ok", wild |-> FALSE, allocs |-> 0, frees |-> <<>>, ret |-> 0]

Ok(W) == W.st = "ok"

\* Sequencing: the world v an operation left, handed to what comes next.
Bind(v, F(_)) == CHOOSE r \in {F(w) : w \in {v}} : TRUE

Valid(hp, p) == p \in DOMAIN hp /\ hp[p].live

\* CmpsPtr::get_ptr of the handle ptr compressed at the given level.
W_get_ptr(W, level, ptr) ==
    apply_global_mask(W.nm, GLOBAL_MASK, W.list, TRUE, level, Shl(ptr, cmps_level(level)))

\* An access through p that is no live block: the process crashes, or goes on
\* with whatever the address holds (a write lands outside every block).
Wild(W) == IF W.g = CRASH THEN [W EXCEPT !.st = "crash", !.wild = TRUE]
           ELSE [W EXCEPT !.wild = TRUE]

\* A Counter method called on the counter stored at address p.
counter_call(W, p, op) ==
    IF ~Ok(W) THEN W
    ELSE Bind(p, LAMBDA q :
         IF q = PANIC THEN [W EXCEPT !.st = "panic"]
         ELSE IF Valid(W.heap, q)
         THEN Bind(CounterOp(W.atomic, op, W.heap[q].cnt), LAMBDA r :
              [W EXCEPT !.heap[q].cnt = r.cnt, !.ret = r.ret])
         ELSE Bind(Wild(W), LAMBDA V :
              IF Ok(V) THEN [V EXCEPT !.ret = CounterOp(W.atomic, op, W.g).ret] ELSE V))

\* The address alloc returns: the preferred ones first, 0 when none is free.
NextFree(W) ==
    LET free == {a \in HeapPool : ~W.heap[a].live}
    IN  IF W.pref[1] \in free THEN W.pref[1]
        ELSE IF W.pref[2] \in free THEN W.pref[2]
        ELSE IF free = {} THEN 0
        ELSE CHOOSE a \in free : \A b \in free : a <= b

\* CmpsPtr::<T, level, true>::new_alloc(): alloc, handle_alloc_error on null,
\* then compress the address against _GLOBAL_NEW_MASK.
new_alloc(W, level) ==
    IF ~Ok(W) THEN W
    ELSE Bind(NextFree(W), LAMBDA a :
         IF a = 0 THEN [W EXCEPT !.st = "abort"]
         ELSE Bind(IF level = 0
                   THEN [mask |-> W.nm] @@ list_ptr(W.list, W.nullIdx, TRUE, a)
                   ELSE compress(W.nm, W.list, W.nullIdx, level, a), LAMBDA r :
              [W EXCEPT !.heap[a] = [NoBlock EXCEPT !.live = TRUE],
                        !.nm = r.mask, !.list = r.list, !.nullIdx = r.nullIdx,
                        !.np = r.ret, !.na = a, !.allocs = @ + 1,
                        !.st = IF r.ret = PANIC THEN "panic" ELSE "ok"]))

\* copy_nonoverlapping(src, dst, ..): the value at src copied over dst.
copy_value(W, src, dst) ==
    IF ~Ok(W) THEN W
    ELSE Bind(src, LAMBDA s : Bind(dst, LAMBDA d :
         IF s = PANIC \/ d = PANIC THEN [W EXCEPT !.st = "panic"]
         ELSE IF Valid(W.heap, s) /\ Valid(W.heap, d)
         THEN [W EXCEPT !.heap[d] = W.heap[s]]
         ELSE Bind(Wild(W), LAMBDA V :
              IF Ok(V) /\ Valid(W.heap, d)
              THEN [V EXCEPT !.heap[d].x = W.g, !.heap[d].cnt = W.g]
              ELSE V)))

\* unlist_ptr::<level>(ptr) on the world's list.
W_unlist(W, level, ptr) ==
    IF ~Ok(W) THEN W
    ELSE Bind(unlist_ptr(W.list, level, ptr), LAMBDA u :
         IF u.panic THEN [W EXCEPT !.st = "panic"] ELSE [W EXCEPT !.list = u.list])

\* dealloc(p, layout): a live block is released; free(NULL) does nothing; any
\* other address is not the allocator's to release.
W_dealloc(W, p) ==
    IF ~Ok(W) THEN W
    ELSE Bind(p, LAMBDA q :
         IF q = PANIC THEN [W EXCEPT !.st = "panic"]
         ELSE IF Valid(W.heap, q)
         THEN [W EXCEPT !.heap[q] = NoBlock, !.frees = Append(@, q)]
         ELSE IF q = 0 THEN [W EXCEPT !.frees = Append(@, q)]
         ELSE [Wild(W) EXCEPT !.frees = Append(@, q)])

\* The store of v into the field x of the value at address p.
store_x(W, p, v) ==
    IF ~Ok(W) THEN W
    ELSE Bind(p, LAMBDA q :
         IF q = PANIC THEN [W EXCEPT !.st = "panic"]
         ELSE IF Valid(W.heap, q) THEN [W EXCEPT !.heap[q].x = v, !.ret = v]
         ELSE Wild(W))

\* ---------------------------------------------------------------- CmpsCnt
\* self.current_count(): Deref for CmpsCnt, ptr(), then the Counter method.
cnt_current_count(W) == counter_call(W, W_get_ptr(W, W.level, W.ptr), "current")

RECURSIVE cnt_detach(_, _)
\* CmpsCnt::ptr_mut: detach first under COW; the reference is then
\* W_get_ptr of the world returned.  depth counts the detach calls on the stack.
cnt_ptr_mut(W, depth) == IF W.cow THEN cnt_detach(W, depth) ELSE W

\* self.increase_count() / self.decrease_count() on a CmpsCnt: the receiver
\* is reached through DerefMut for CmpsCnt, that is through ptr_mut.
cnt_counter_mut(W, op, depth) ==
    Bind(cnt_ptr_mut(W, depth),
         LAMBDA W1 : counter_call(W1, W_get_ptr(W1, W1.level, W1.ptr), op))

\* CmpsCnt::detach.  Its self.decrease_count() goes through DerefMut, so under
\* COW it calls detach again before the count has changed.
cnt_detach(W, depth) ==
    IF ~Ok(W) THEN W
    ELSE IF depth > MaxDepth THEN [W EXCEPT !.st = "abort"]
    ELSE Bind(cnt_current_count(W), LAMBDA W0 :
         IF ~Ok(W0) \/ ~(W0.ret > 1) THEN W0
         ELSE Bind(new_alloc(W0, W0.level), LAMBDA W1 :
              Bind(copy_value(W1, W_get_ptr(W1, W1.level, W1.ptr),
                                  W_get_ptr(W1, W1.level, W1.np)), LAMBDA W2 :
              Bind(counter_call(W2, W_get_ptr(W2, W2.level, W1.np), "reset"), LAMBDA W3 :
              Bind(cnt_counter_mut(W3, "decrease", depth + 1), LAMBDA W4 :
              IF Ok(W4) THEN [W4 EXCEPT !.ptr = W1.np, !.addr = W1.na] ELSE W4)))))

\* CmpsCnt::new: new_alloc, then reset_count through the new handle.
cnt_new(W) ==
    Bind(new_alloc(W, W.level), LAMBDA W1 :
    Bind(counter_call(W1, W_get_ptr(W1, W1.level, W1.np), "reset"), LAMBDA W2 :
    IF Ok(W2) THEN [W2 EXCEPT !.ptr = W1.np, !.addr = W1.na] ELSE W2))

\* Clone for CmpsCnt: increase_count on self, then a copy of self._ptr.
cnt_clone(W) == cnt_counter_mut(W, "increase", 0)

\* Drop for CmpsCnt: at count 0 unlist the handle, then dealloc what
\* self.ptr_mut() refers to.
cnt_drop(W) ==
    Bind(cnt_counter_mut(W, "decrease", 0), LAMBDA W1 :
    IF ~Ok(W1) \/ W1.ret # 0 THEN W1
    ELSE Bind(W_unlist(W1, W1.level, W1.ptr), LAMBDA W2 :
         Bind(cnt_ptr_mut(W2, 0), LAMBDA W3 :
         W_dealloc(W3, W_get_ptr(W3, W3.level, W3.ptr)))))

\* c.x = v: DerefMut for CmpsCnt, then the store.
cnt_write(W, v) ==
    Bind(cnt_ptr_mut(W, 0), LAMBDA W1 : store_x(W1, W_get_ptr(W1, W1.level, W1.ptr), v))

\* ---------------------------------------------------------------- CmpsShr
\* A Counter method on self._rfc: DerefMut for CmpsPtr, no detach.
shr_rfc_call(W, op) == counter_call(W, W_get_ptr(W, RfcLevel, W.rfc), op)

\* CmpsShr::new: the counter block first, then the value block.
shr_new(W) ==
    Bind(new_alloc(W, RfcLevel), LAMBDA W1 :
    Bind(counter_call(W1, W_get_ptr(W1, RfcLevel, W1.np), "reset"), LAMBDA W2 :
    Bind(new_alloc(W2, W2.level), LAMBDA W3 :
    IF Ok(W3) THEN [W3 EXCEPT !.ptr = W3.np, !.addr = W3.na,
                              !.rfc = W1.np, !.raddr = W1.na]
    ELSE W3)))

\* CmpsShr::detach.
shr_detach(W) ==
    Bind(shr_rfc_call(W, "current"), LAMBDA W0 :
    IF ~Ok(W0) \/ ~(W0.ret > 1) THEN W0
    ELSE Bind(new_alloc(W0, W0.level), LAMBDA W1 :
         Bind(copy_value(W1, W_get_ptr(W1, W1.level, W1.ptr),
                             W_get_ptr(W1, W1.level, W1.np)), LAMBDA W2 :
         Bind(IF Ok(W2) THEN [W2 EXCEPT !.ptr = W1.np, !.addr = W1.na] ELSE W2, LAMBDA W3 :
         Bind(shr_rfc_call(W3, "decrease"), LAMBDA W4 :
         Bind(new_alloc(W4, RfcLevel), LAMBDA W5 :
         Bind(counter_call(W5, W_get_ptr(W5, RfcLevel, W5.np), "reset"), LAMBDA W6 :
         IF Ok(W6) THEN [W6 EXCEPT !.rfc = W5.np, !.raddr = W5.na] ELSE W6)))))))

\* CmpsShr::ptr_mut: detach first under COW.
shr_ptr_mut(W) == IF W.cow THEN shr_detach(W) ELSE W

\* Clone for CmpsShr: increase_count on the counter, then copies of both handles.
shr_clone(W) == shr_rfc_call(W, "increase")

\* Drop for CmpsShr: at count 0 unlist the value handle, dealloc the value,
\* dealloc the counter.
shr_drop(W) ==
    Bind(shr_rfc_call(W, "decrease"), LAMBDA W1 :
    IF ~Ok(W1) \/ W1.ret # 0 THEN W1
    ELSE Bind(W_unlist(W1, W1.level, W1.ptr), LAMBDA W2 :
         Bind(shr_ptr_mut(W2), LAMBDA W3 :
         Bind(W_dealloc(W3, W_get_ptr(W3, W3.level, W3.ptr)), LAMBDA W4 :
         W_dealloc(W4, W_get_ptr(W4, RfcLevel, W4.rfc))))))

\* s.x = v: DerefMut for CmpsShr, then the store.
shr_write(W, v) ==
    Bind(shr_ptr_mut(W), LAMBDA W1 : store_x(W1, W_get_ptr(W1, W1.level, W1.ptr), v))

\* ------------------------------------------- the counted wrappers' actions
\* The wrapper self after an operation that left world W.
Bound(h, W) == [h EXCEPT !.live = TRUE, !.ptr = W.ptr, !.rfc = W.rfc,
                         !.addr = W.addr, !.raddr = W.raddr]
Unbound(h) == [h EXCEPT !.live = FALSE, !.ptr = 0, !.rfc = 0, !.addr = 0, !.raddr = 0]

\* The process is running and its state is defined: no operation panicked,
\* aborted or crashed, and none went through a wild address (what the process
\* does after one that did is not followed further).
Running == last.st = "ok" /\ ~last.wild

\* The outcomes to consider for accesses through wild addresses.
Outcomes(wild) == IF wild THEN Garbage \cup {CRASH} ELSE {0}

\* The statics, the heap and the record of the operation, from its world.
Commit(W, op, s, addr, raddr) ==
    /\ Len(W.list) <= MaxList
    /\ GLOBAL_NEW_MASK' = W.nm
    /\ PTR_LIST' = W.list
    /\ NULL_IDX' = W.nullIdx
    /\ heap' = W.heap
    /\ peak' = IF InUse(W.list) > peak THEN InUse(W.list) ELSE peak
    /\ last' = Op(op, s, addr, raddr, W.ret, W.st, W.frees, W.allocs, W.wild)
    /\ UNCHANGED <<GLOBAL_MASK, ctr, th, cpy>>

\* The blocks an operation allocates when it runs as intended: an action is
\* enabled only with that much memory free, so that alloc fails only for an
\* operation that allocates without end.
Need(op, h) ==
    CASE op = "new" -> IF h.type = "shr" THEN 2 ELSE 1
      [] op = "detach" \/ (op = "write" /\ h.cow) -> IF h.type = "shr" THEN 2 ELSE 1
      [] OTHER -> 0

\* The addresses the allocator may hand out first and second to an operation
\* that allocates: any free ones.
Free == {a \in HeapPool : ~heap[a].live}
Prefs(op, h) ==
    IF Need(op, h) = 0 /\ ~(h.cow /\ h.type = "cnt") THEN {<<0, 0>>}
    ELSE IF Need(op, h) < 2 THEN {<<a, 0>> : a \in Free}
    ELSE {p \in Free \X Free : p[1] # p[2]}

\* One method of CmpsCnt or CmpsShr on the wrapper h.
RcOp(op, h, pref, g, v) ==
    Bind(World(h, pref[1], pref[2], g), LAMBDA W :
    CASE op = "new" -> IF h.type = "cnt" THEN cnt_new(W) ELSE shr_new(W)
      [] op = "clone" -> IF h.type = "cnt" THEN cnt_clone(W) ELSE shr_clone(W)
      [] op = "drop" -> IF h.type = "cnt" THEN cnt_drop(W) ELSE shr_drop(W)
      [] op = "detach" -> IF h.type = "cnt" THEN cnt_detach(W, 0) ELSE shr_detach(W)
      [] op = "write" -> IF h.type = "cnt" THEN cnt_write(W, v) ELSE shr_write(W, v))

\* The operation op on the wrapper variable s, in every way it can go.
RcStep(op, s, v) ==
    /\ Running
    /\ hs[s].type \in {"cnt", "shr"}
    /\ hs[s].live = (op # "new")
    /\ Cardinality(Free) >= Need(op, hs[s])
    /\ \E pref \in Prefs(op, hs[s]) :
         \E g \in Outcomes(RcOp(op, hs[s], pref, 0, v).wild) :
            \E W \in {RcOp(op, hs[s], pref, g, v)} :
                /\ Commit(W, op, s, IF op = "new" THEN W.addr ELSE hs[s].addr,
                                     IF op = "new" THEN W.raddr ELSE hs[s].raddr)
                /\ hs' = IF ~Ok(W) THEN hs
                         ELSE IF op = "drop" THEN [hs EXCEPT ![s] = Unbound(hs[s])]
                         ELSE [hs EXCEPT ![s] = Bound(hs[s], W)]

\* CmpsCnt::new() / CmpsShr::new() into the variable s.  The programs followed
\* create a counted value when they hold no other; further ones come from
\* clone and detach.
RcNew(s) == (\A t \in DOMAIN hs : ~hs[t].live) /\ s = 1 /\ RcStep("new", s, 0)

\* The wrapper in s is dropped.
RcDrop(s) == RcStep("drop", s, 0)

\* s.detach()
RcDetach(s) == RcStep("detach", s, 0)

\* s.x = v, in the programs whose wrappers copy on write; without COW the
\* write is a plain store into the block all sharers see.
RcWrite(s, v) == hs[s].cow /\ RcStep("write", s, v)

\* t = s.clone(): the Counter is increased through s, then t gets copies of
\* the handles of s.  The clone is kept in the first variable that is unused.
RcClone(s, t) ==
    /\ Running
    /\ hs[s].type \in {"cnt", "shr"} /\ hs[s].live
    /\ s # t /\ ~hs[t].live
    /\ \A u \in DOMAIN hs : u < t => hs[u].live
    /\ \E pref \in Prefs("clone", hs[s]) :
         \E g \in Outcomes(RcOp("clone", hs[s], pref, 0, 0).wild) :
            \E W \in {RcOp("clone", hs[s], pref, g, 0)} :
                /\ Commit(W, "clone", s, hs[s].addr, hs[s].raddr)
                /\ hs' = IF Ok(W)
                         THEN [hs EXCEPT ![s] = Bound(hs[s], W), ![t] = Bound(hs[s], W)]
                         ELSE hs

\* ------------------------------------------------------------ specification
Next ==
    \/ \E s \in Slots, a \in RefPool : RefSet(s, a)
    \/ \E s \in Slots, a \in HeapPool : UnqNew(s, a)
    \/ \E s \in Slots : UnqDrop(s)

Spec == Init /\ [][Next]_vars

\* --------------------------------------------- programs of counted wrappers
\* Wrapper variables a program of counted wrappers has.
MaxOwners == 3
Owners == 1..MaxOwners
\* The values a program stores in the field x.
Values == {1}

\* A program whose variables are all CmpsCnt, or all CmpsShr, of one level,
\* one COW setting and one Counter implementation.
InitRc ==
    /\ InitStatics
    /\ InitCounters
    /\ InitSingle
    /\ \E type \in {"cnt", "shr"}, level \in Levels, cow \in BOOLEAN, atomic \in BOOLEAN :
          hs = [s \in Owners |-> Wrapper(type, level, cow, atomic)]

NextRc ==
    \/ \E s \in DOMAIN hs : RcNew(s)
    \/ \E s \in DOMAIN hs, t \in DOMAIN hs : RcClone(s, t)
    \/ \E s \in DOMAIN hs : RcDrop(s)
    \/ \E s \in DOMAIN hs : RcDetach(s)
    \/ \E s \in DOMAIN hs, v \in Values : RcWrite(s, v)

SpecRc == InitRc /\ [][NextRc]_vars

\* ------------------------------------------------------- all the wrappers
\* A program of CmpsRef and CmpsUnq variables, or one of counted wrappers.
InitAll == Init \/ InitRc

NextAll == Next \/ NextRc

SpecAll == InitAll /\ [][NextAll]_vars

\* ------------------------------------------------- the Counter trait alone
\* One method called on a u32 counter and on an AtomicU32 counter alike.
CounterCall(op) ==
    /\ op = "decrease" => (ctr.plain > 0 /\ ctr.atomic > 0)
    /\ op = "increase" => (ctr.plain < MaxCount /\ ctr.atomic < MaxCount)
    /\ LET p == CounterOp(FALSE, op, ctr.plain)
           a == CounterOp(TRUE, op, ctr.atomic)
       IN  ctr' = [op |-> op, plain |-> p.cnt, atomic |-> a.cnt,
                   plainWas |-> ctr.plain, atomicWas |-> ctr.atomic,
                   plainRet |-> p.ret, atomicRet |-> a.ret]
    /\ UNCHANGED <<GLOBAL_NEW_MASK, GLOBAL_MASK, PTR_LIST, NULL_IDX, heap, hs, last, peak, th, cpy>>

InitCounter ==
    /\ InitStatics
    /\ InitSingle
    /\ hs = [s \in Slots |-> Wrapper("ref", 0, FALSE, FALSE)]
    /\ ctr \in {Counters(c) : c \in 0..MaxCount}

NextCounter == \E op \in {"increase", "decrease", "current", "reset"} : CounterCall(op)

SpecCounter == InitCounter /\ [][NextCounter]_vars

\* ------------------------------------------------- the copy of a detach
\* The sizes in bytes of the value type T, and the bytes memory holds.
MaxSize == 3
Sizes == 0..MaxSize
Bytes == {1, 2}
\* The bytes from a block's first byte on that the model follows: the block,
\* size_of::<T>() bytes long, and the memory behind it.
Extent == MaxSize * MaxSize

\* copy_nonoverlapping::<T>(src, dst, count) copies count * size_of::<T>()
\* bytes; detach passes Layout::new::<T>().size() as count.
copy_bytes(size) == size * size

\* The copy_nonoverlapping call of CmpsCnt::detach and CmpsShr::detach, from
\* the old block to the block new_alloc returned.  A copy that stays inside
\* both blocks completes; one that leaves them either faults or carries the
\* bytes behind the old block over the memory behind the new one.
DetachCopy ==
    /\ cpy.pc = "allocated"
    /\ \E n \in {copy_bytes(cpy.size)} :
         \E st \in IF n <= cpy.size THEN {"ok"} ELSE {"ok", "crash"} :
           cpy' = [cpy EXCEPT
                     !.pc = "copied",
                     !.st = st,
                     !.moved = IF st = "ok" THEN n ELSE 0,
                     !.new = IF st = "ok"
                             THEN [i \in 1..Extent |-> IF i <= n THEN cpy.old[i] ELSE cpy.new[i]]
                             ELSE cpy.new]
    /\ UNCHANGED <<GLOBAL_NEW_MASK, GLOBAL_MASK, PTR_LIST, NULL_IDX, heap, hs, last, peak, ctr, th>>

\* A detach about to copy: a value of any size with any bytes, the memory
\* behind it, and the fresh block with the memory behind that.
InitCopy ==
    /\ InitStatics
    /\ InitCounters
    /\ hs = [s \in Slots |-> Wrapper("cnt", 0, FALSE, FALSE)]
    /\ th = <<>>
    /\ \E size \in Sizes, old \in [1..Extent -> Bytes] :
         cpy = [pc |-> "allocated", st |-> "ok", size |-> size, moved |-> 0,
                old |-> old, new |-> [i \in 1..Extent |-> 0]]

NextCopy == DetachCopy

SpecCopy == InitCopy /\ [][NextCopy]_vars

\* ------------------------------------- threads counting on one AtomicU32
\* The threads of a concurrent program and the calls each of them makes.
MaxThreads == 3
MaxCalls == 3

\* An increase that loads the count and stores the sum as two accesses.
ThIncreaseRacy(t) ==
    /\ th[t].left > 0
    /\ \/ /\ th[t].pc = "ready"
          /\ th' = [th EXCEPT ![t].pc = "loaded", ![t].ret = ctr.atomic]
          /\ UNCHANGED ctr
       \/ /\ th[t].pc = "loaded"
          /\ ctr' = [ctr EXCEPT !.op = "increase", !.atomicWas = ctr.atomic,
                                !.atomic = U32(th[t].ret + 1), !.atomicRet = th[t].ret]
          /\ th' = [th EXCEPT ![t].left = @ - 1,
                              ![t].pc = IF th[t].left = 1 THEN "done" ELSE "ready"]
    /\ UNCHANGED <<GLOBAL_NEW_MASK, GLOBAL_MASK, PTR_LIST, NULL_IDX, heap, hs, last, peak, cpy>>

\* One thread's next increase_count() on the AtomicU32 the threads share, as
\* Clone for CmpsShr calls it on _rfc: one fetch_add.
ThIncrease(t) ==
    /\ th[t].left > 0
    /\ \E r \in {atomic_increase_count(ctr.atomic)} :
         /\ ctr' = [ctr EXCEPT !.op = "increase", !.atomicWas = ctr.atomic,
                               !.atomic = r.cnt, !.atomicRet = r.ret]
         /\ th' = [th EXCEPT ![t].left = @ - 1, ![t].ret = r.ret,
                             ![t].pc = IF th[t].left = 1 THEN "done" ELSE "ready"]
    /\ UNCHANGED <<GLOBAL_NEW_MASK, GLOBAL_MASK, PTR_LIST, NULL_IDX, heap, hs, last, peak, cpy>>

\* T threads that will each call increase_count() N times on a Counter that
\* reset_count() set to 1.
InitCount ==
    /\ InitStatics
    /\ InitCounters
    /\ hs = [s \in Slots |-> Wrapper("shr", 1, FALSE, TRUE)]
    /\ cpy = <<>>
    /\ \E T \in 1..MaxThreads, N \in 1..MaxCalls :
         th = [t \in 1..T |-> [pc |-> "ready", calls |-> N, left |-> N, ret |-> 0]]

NextCount == \E t \in DOMAIN th : ThIncrease(t)

SpecCount == InitCount /\ [][NextCount]_vars

\* ------------------------------------------- threads racing for the mask
\* The threads that compress for the first time at once.
Racers == 2

\* The statics and the thread after compress! returned r to thread t.
ThReturn(t, r) ==
    /\ SetCodec(r, th[t].newAlloc)
    /\ th' = [th EXCEPT ![t].pc = IF r.ret = PANIC THEN "panic" ELSE "done",
                        ![t].handle = r.ret]
    /\ UNCHANGED <<heap, hs, last, ctr, cpy>>

\* A thread calls compress for an address of its own.
ThCompress(t, a) ==
    /\ th[t].pc = "idle"
    /\ Aligned(th[t].level, a)
    /\ \A u \in DOMAIN th : th[u].addr # a
    /\ th' = [th EXCEPT ![t].pc = "check", ![t].addr = a]
    /\ UNCHANGED <<GLOBAL_NEW_MASK, GLOBAL_MASK, PTR_LIST, NULL_IDX, heap, hs, last, peak, ctr, cpy>>

\* compress!, "if $mask == usize::MAX": the static mut is read with no lock
\* held.
ThMaskCheck(t) ==
    /\ th[t].pc = "check"
    /\ th' = [th EXCEPT
                ![t].saw = (PairMask(th[t].level, th[t].newAlloc) = UsizeMax),
                ![t].pc = IF PairMask(th[t].level, th[t].newAlloc) = UsizeMax
                          THEN "set" ELSE "compare"]
    /\ UNCHANGED <<GLOBAL_NEW_MASK, GLOBAL_MASK, PTR_LIST, NULL_IDX, heap, hs, last, peak, ctr, cpy>>

\* The branch taken when the mask was set: the mask is read again and compared
\* with the address's high bits.
ThMaskCompare(t) ==
    /\ th[t].pc = "compare"
    /\ ThReturn(t, compress(PairMask(th[t].level, th[t].newAlloc), PTR_LIST, NULL_IDX,
                            th[t].level, th[t].addr))

\* A set of the mask that is one step with the check: a thread that no longer
\* finds the mask unset takes the other branch.
ThMaskSetOnce(t) ==
    /\ th[t].pc = "set"
    /\ ThReturn(t, compress(PairMask(th[t].level, th[t].newAlloc), PTR_LIST, NULL_IDX,
                            th[t].level, th[t].addr))

\* The branch taken when the mask was unset: the mask is written, whatever it
\* holds by now, and the handle is the shifted address.
ThMaskSet(t) ==
    /\ th[t].pc = "set"
    /\ ThReturn(t, compress(UsizeMax, PTR_LIST, NULL_IDX, th[t].level, th[t].addr))

\* Threads about to compress under one level and one origin, nothing having
\* been compressed before.
InitRace ==
    /\ InitStatics
    /\ InitCounters
    /\ hs = [s \in Slots |-> Wrapper("ref", 0, FALSE, FALSE)]
    /\ cpy = <<>>
    /\ \E level \in Levels \ {0}, newAlloc \in BOOLEAN :
         th = [t \in 1..Racers |->
                 [pc |-> "idle", level |-> level, newAlloc |-> newAlloc,
                  addr |-> 0, saw |-> FALSE, handle |-> 0]]

NextRace ==
    \/ \E t \in DOMAIN th, a \in HeapPool \cup RefPool :
         a \in (IF th[t].newAlloc THEN HeapPool ELSE RefPool) /\ ThCompress(t, a)
    \/ \E t \in DOMAIN th : ThMaskCheck(t)
    \/ \E t \in DOMAIN th : ThMaskCompare(t)
    \/ \E t \in DOMAIN th : ThMaskSet(t)

SpecRace == InitRace /\ [][NextRace]_vars

\* ------------------------------------------- threads on the pointer list
\* The threads that use the list at once, and the slots they may fill.
Listers == 2
MaxTable == 3

\* The threads inside list_ptr that have not written their slot yet.
Listing == {u \in DOMAIN th : th[u].pc \in {"lock", "scan", "write"}}

\* What the other variables are to a thread's step on the list.
ThLocal(t) == UNCHANGED <<GLOBAL_NEW_MASK, GLOBAL_MASK, heap, hs, last, ctr, cpy>>

\* A thread calls list_ptr::<LIST_ONLY>(a): level 0 lists only, level 1 falls
\* back to the list from compress!.
ThList(t, a) ==
    /\ th[t].pc = "idle"
    /\ Len(PTR_LIST) + Cardinality(Listing) < MaxTable
    /\ th' = [th EXCEPT ![t].pc = "lock", ![t].addr = a]
    /\ UNCHANGED <<PTR_LIST, NULL_IDX, peak>>
    /\ ThLocal(t)

\* ptr_list() that locks without waiting for the Mutex to be free.
ThLockShared(t) ==
    /\ th[t].pc = "lock"
    /\ th' = [th EXCEPT ![t].pc = "scan", ![t].holds = TRUE,
                        ![t].list0 = PTR_LIST, ![t].idx0 = NULL_IDX]
    /\ UNCHANGED <<PTR_LIST, NULL_IDX, peak>>
    /\ ThLocal(t)

\* "let mut mutex_list = ptr_list()": _PTR_LIST.lock() returns once no thread
\* holds the guard; the thread holds it until list_ptr returns.
ThLock(t) ==
    /\ th[t].pc = "lock"
    /\ \A u \in DOMAIN th : ~th[u].holds
    /\ th' = [th EXCEPT ![t].pc = "scan", ![t].holds = TRUE,
                        ![t].list0 = PTR_LIST, ![t].idx0 = NULL_IDX]
    /\ UNCHANGED <<PTR_LIST, NULL_IDX, peak>>
    /\ ThLocal(t)

\* "let mut list_len = ptr_list.len(); for mut i in _NULL_IDX..list_len":
\* the length is read and the slots from the cursor on are searched for a 0.
ThScan(t) ==
    /\ th[t].pc = "scan"
    /\ th' = [th EXCEPT ![t].pc = "write", ![t].len = Len(PTR_LIST),
                        ![t].i = FirstZero(PTR_LIST, NULL_IDX)]
    /\ UNCHANGED <<PTR_LIST, NULL_IDX, peak>>
    /\ ThLocal(t)

\* "ptr_list[i] = ptr; i += 1", or "list_len += 1; ptr_list.push(ptr)".
ThWrite(t) ==
    /\ th[t].pc = "write"
    /\ PTR_LIST' = IF th[t].i >= 0 /\ th[t].i < Len(PTR_LIST)
                   THEN [PTR_LIST EXCEPT ![th[t].i + 1] = th[t].addr]
                   ELSE Append(PTR_LIST, th[t].addr)
    /\ peak' = IF InUse(PTR_LIST') > peak THEN InUse(PTR_LIST') ELSE peak
    /\ th' = [th EXCEPT ![t].pc = "cursor",
                        ![t].n = IF th[t].i >= 0 THEN th[t].i + 1 ELSE th[t].len + 1]
    /\ UNCHANGED NULL_IDX
    /\ ThLocal(t)

\* "_NULL_IDX = i" or "_NULL_IDX = list_len", and the value to return.
ThCursor(t) ==
    /\ th[t].pc = "cursor"
    /\ NULL_IDX' = th[t].n
    /\ th' = [th EXCEPT ![t].pc = "unlock",
                        ![t].handle = IF th[t].level = 0 THEN AsU32(th[t].n)
                                      ELSE AsU32(BitOr(Shl(th[t].n, 1), 1))]
    /\ UNCHANGED <<PTR_LIST, peak>>
    /\ ThLocal(t)

\* list_ptr returns: the guard is dropped.
ThUnlock(t) ==
    /\ th[t].pc = "unlock"
    /\ th' = [th EXCEPT ![t].pc = "listed", ![t].holds = FALSE]
    /\ UNCHANGED <<PTR_LIST, NULL_IDX, peak>>
    /\ ThLocal(t)

\* get_ptr of the handle: apply_global_mask reads "ptr_list()[..]" under a
\* guard that lives for that one expression.
ThResolve(t) ==
    /\ th[t].pc = "listed"
    /\ \A u \in DOMAIN th : ~th[u].holds
    /\ th' = [th EXCEPT ![t].pc = "resolved",
                        ![t].res = get_ptr(FALSE, th[t].level, th[t].handle)]
    /\ UNCHANGED <<PTR_LIST, NULL_IDX, peak>>
    /\ ThLocal(t)

\* unlist_ptr::<CMPS_LEVEL>(handle): "ptr_list()[..] = 0" under a guard that
\* lives for that one statement.
ThUnlist(t) ==
    /\ th[t].pc = "resolved"
    /\ \A u \in DOMAIN th : ~th[u].holds
    /\ PTR_LIST' = unlist_ptr(PTR_LIST, th[t].level, th[t].handle).list
    /\ th' = [th EXCEPT ![t].pc = "idle", ![t].addr = 0, ![t].handle = 0, ![t].res = 0]
    /\ UNCHANGED <<NULL_IDX, peak>>
    /\ ThLocal(t)

\* Threads of levels 0 and 1 with nothing listed.
InitTable ==
    /\ InitStatics
    /\ InitCounters
    /\ hs = [s \in Slots |-> Wrapper("ref", 0, FALSE, FALSE)]
    /\ cpy = <<>>
    /\ th \in [1..Listers ->
                 {[pc |-> "idle", level |-> l, holds |-> FALSE, addr |-> 0, handle |-> 0,
                   res |-> 0, len |-> 0, i |-> 0, n |-> 0, list0 |-> <<>>, idx0 |-> 0]
                    : l \in {0, 1}}]

NextTable ==
    \/ \E t \in DOMAIN th, a \in RefPool : ThList(t, a)
    \/ \E t \in DOMAIN th : ThLock(t)
    \/ \E t \in DOMAIN th : ThScan(t)
    \/ \E t \in DOMAIN th : ThWrite(t)
    \/ \E t \in DOMAIN th : ThCursor(t)
    \/ \E t \in DOMAIN th : ThUnlock(t)
    \/ \E t \in DOMAIN th : ThResolve(t)
    \/ \E t \in DOMAIN th : ThUnlist(t)

SpecTable == InitTable /\ [][NextTable]_vars

\* ------------------------------------------------------------------ claims
\* The mask a wrapper's handles are compressed against.
MaskOf(h) == IF NewAlloc(h) THEN GLOBAL_NEW_MASK ELSE GLOBAL_MASK

\* The address a live wrapper's value handle decompresses to now.
Decompressed(h) == get_ptr(NewAlloc(h), h.level, h.ptr)

\* Whether decompression takes a handle for a reference into PTR_LIST.
ReadAsListed(h) ==
    h.level = 0 \/ (h.level > 0 /\ listed(Shl(h.ptr, cmps_level(h.level))))

\* Whether compress sent the wrapper's address to PTR_LIST: its high-order
\* bits differ from the mask that was set.
Missed(h) == MaskOf(h) # UsizeMax /\ HighBits(h.level, h.addr) # MaskOf(h)

\* C1: round trip.  Every handle compress returned, at any level and for
\* either origin, decompresses to the address that was compressed.
C1_RoundTrip ==
    \A s \in Slots :
        (hs[s].live /\ hs[s].type \in {"ref", "unq"}) => Decompressed(hs[s]) = hs[s].addr

\* C2: fallback path.  With the mask set and a level >= 0, the handle of an
\* address whose high-order bits differ from the mask is read back as a
\* reference into the pointer list and resolves to that address.
C2_FallbackRoundTrip ==
    \A s \in Slots :
        (hs[s].live /\ hs[s].type \in {"ref", "unq"} /\ hs[s].level >= 0 /\ Missed(hs[s]))
            => (ReadAsListed(hs[s]) /\ Decompressed(hs[s]) = hs[s].addr)

\* C8: dropping a CmpsUnq hands the deallocator exactly the address new()
\* allocated (never the zero of an unlisted slot), at every level.
C8_UnqDropFreesOwn ==
    last.op = "drop" => (last.res = last.addr /\ last.res # 0)

\* C9: slot reuse.  The pointer list is never longer than the largest
\* number of addresses that were listed at one time.
C9_SlotReuse == Len(PTR_LIST) <= peak

\* A compress of address a into slot s that strict mode must refuse.
StrictMiss(s, a) ==
    /\ hs[s].level < 0
    /\ MaskOf(hs[s]) # UsizeMax
    /\ HighBits(hs[s].level, a) # MaskOf(hs[s])

\* C10: strict mode.  Under a negative level and a set mask, compressing an
\* address with other high-order bits panics: no handle is returned and the
\* masks, the pointer list and the cursor stay as they were.
C10_StrictAbort ==
    [][\A s \in Slots :
         (last'.op = "compress" /\ last'.slot = s /\ StrictMiss(s, last'.addr))
            => /\ last'.res = PANIC
               /\ hs' = hs
               /\ UNCHANGED <<GLOBAL_NEW_MASK, GLOBAL_MASK, PTR_LIST, NULL_IDX>>]_vars

\* A strict-mode compress has panicked, with entries in the pointer list.
C10_Witness ==
    /\ last.op = "compress"
    /\ last.res = PANIC
    /\ hs[last.slot].level < 0
    /\ Len(PTR_LIST) > 0

\* The wrappers now bound to the value block at address a, and those whose
\* Counter is the one at address c.
Sharers(a) == {t \in DOMAIN hs : hs[t].live /\ hs[t].addr = a}
CounterAddr(h) == IF h.type = "shr" THEN h.raddr ELSE h.addr
Counting(c) ==
    {t \in DOMAIN hs : hs[t].live /\ hs[t].type \in {"cnt", "shr"} /\ CounterAddr(hs[t]) = c}

\* C3: reference counting of a CmpsCnt.  Every clone and every drop
\* completes; a clone and a drop that leaves sharers behind deallocate
\* nothing, and the drop of the last sharer deallocates the value block, once.
C3_CountedDropFrees ==
    (hs[1].type = "cnt" /\ last.op \in {"clone", "drop"}) =>
        /\ last.st = "ok"
        /\ ~last.wild
        /\ last.frees = IF last.op = "drop" /\ Sharers(last.addr) = {}
                        THEN <<last.addr>> ELSE <<>>

\* C4: deallocation of a CmpsShr, for u32 and AtomicU32 counters.  Every clone
\* and every drop completes; the value block and the counter block are both
\* deallocated, each once, by the drop of the last sharer and by nothing else.
C4_SharedDropFrees ==
    (hs[1].type = "shr" /\ last.op \in {"clone", "drop"}) =>
        /\ last.st = "ok"
        /\ ~last.wild
        /\ IF last.op = "drop" /\ Sharers(last.addr) = {}
           THEN /\ Len(last.frees) = 2
                /\ {last.frees[1], last.frees[2]} = {last.addr, last.raddr}
                /\ ~heap[last.addr].live /\ ~heap[last.raddr].live
           ELSE last.frees = <<>>

\* C5: copy-on-write isolation.  When b, a COW CmpsCnt sharing its block with
\* exactly one other wrapper a, is written through, the write completes, b is
\* bound to another block that holds the value written, a's block keeps the
\* value it had, and both Counters are 1.
C5_CowIsolation ==
    [][\A b \in DOMAIN hs, a \in DOMAIN hs :
         (/\ last'.op = "write" /\ last'.slot = b
          /\ hs[b].type = "cnt" /\ hs[b].cow
          /\ Sharers(hs[b].addr) = {a, b} /\ a # b)
            => /\ last'.st = "ok"
               /\ ~last'.wild
               /\ hs'[a] = hs[a]
               /\ hs'[b].addr # hs[a].addr
               /\ heap'[hs'[b].addr].x = last'.res
               /\ heap'[hs[a].addr].x = heap[hs[a].addr].x
               /\ heap'[hs[a].addr].cnt = 1
               /\ heap'[hs'[b].addr].cnt = 1]_vars

\* C7: the Counter equals the owners.  After operations that all completed,
\* the Counter of every live CmpsCnt or CmpsShr holds the number of live
\* wrappers that count on it.
C7_CounterEqualsOwners ==
    (last.st = "ok" /\ ~last.wild) =>
        \A s \in DOMAIN hs :
            (hs[s].live /\ hs[s].type \in {"cnt", "shr"}) =>
                /\ Valid(heap, CounterAddr(hs[s]))
                /\ heap[CounterAddr(hs[s])].cnt = Cardinality(Counting(CounterAddr(hs[s])))


\* What a compress of address a under the pair (level, origin) would do in
\* this state: whether it goes to the pointer list, whether it panics, and
\* the handle of the shift-mask path.
CompressOutcome(level, newAlloc, a) ==
    LET r == check_global_mask(level, newAlloc, a)
    IN  [ fallback |-> r.list # PTR_LIST,
          panic |-> r.ret = PANIC,
          ret |-> IF r.list # PTR_LIST THEN 0 ELSE r.ret ]

\* C11: per-pair mask independence.  A compress under the pair (level,
\* origin) of a wrapper leaves, for every other pair (another level or the
\* other origin), the mask of that pair as it was, and with it the path and
\* the result of a later compress of any address under that other pair.
C11_PairIndependence ==
    [][\A s \in DOMAIN hs, l \in Levels, o \in BOOLEAN :
         (/\ last'.op = "compress" /\ last'.slot = s
          /\ hs[s].type \in {"ref", "unq"}
          /\ <<l, o>> # <<hs[s].level, NewAlloc(hs[s])>>)
            => /\ PairMask(l, o)' = PairMask(l, o)
               /\ \A a \in HeapPool \cup RefPool :
                    Aligned(l, a) =>
                        (CompressOutcome(l, o, a).fallback'
                            = CompressOutcome(l, o, a).fallback
                         /\ CompressOutcome(l, o, a).panic'
                            = CompressOutcome(l, o, a).panic)]_vars

\* The same for pairs of the other origin only, which the code does keep
\* apart: _GLOBAL_NEW_MASK and _GLOBAL_MASK are two statics.
OriginIndependence ==
    [][\A s \in DOMAIN hs :
         (last'.op = "compress" /\ last'.slot = s /\ hs[s].type \in {"ref", "unq"})
            => PairMask(0, ~NewAlloc(hs[s]))' = PairMask(0, ~NewAlloc(hs[s]))]_vars

\* C12: mask immutability.  Once a mask static holds a value other than
\* usize::MAX, no operation of any wrapper changes it: compress on either
\* path, decompress, list, unlist, new, clone, drop, detach, set_ptr.
C12_MaskImmutable ==
    [][/\ GLOBAL_NEW_MASK # UsizeMax => GLOBAL_NEW_MASK' = GLOBAL_NEW_MASK
       /\ GLOBAL_MASK # UsizeMax => GLOBAL_MASK' = GLOBAL_MASK]_vars

\* An address with other high-order bits than the set mask was compressed
\* (on the fallback path), and the mask is the one set before.
C12_Witness ==
    /\ last.op \in {"compress", "new", "detach"}
    /\ last.st = "ok"
    /\ last.slot \in DOMAIN hs
    /\ hs[last.slot].live
    /\ Missed(hs[last.slot])
    /\ Len(PTR_LIST) > 0

\* What C15 asks of a detach of the CmpsShr in variable s, as a step.
ShrDetachContract(s) ==
    LET k == heap[hs[s].raddr].cnt
    IN  IF k > 1
        THEN /\ last'.st = "ok" /\ ~last'.wild
             /\ last'.allocs = 2
             /\ ~heap[hs'[s].addr].live /\ ~heap[hs'[s].raddr].live
             /\ hs'[s].addr # hs'[s].raddr
             /\ heap'[hs'[s].addr].live /\ heap'[hs'[s].raddr].live
             /\ heap'[hs'[s].addr].x = heap[hs[s].addr].x
             /\ heap'[hs'[s].raddr].cnt = 1
             /\ heap'[hs[s].raddr].cnt = k - 1
             /\ \A t \in DOMAIN hs \ {s} : hs'[t] = hs[t]
        ELSE /\ last'.st = "ok" /\ ~last'.wild
             /\ last'.allocs = 0
             /\ UNCHANGED <<heap, hs, PTR_LIST, NULL_IDX, GLOBAL_NEW_MASK, GLOBAL_MASK>>

\* C15: detach of a CmpsShr, with u32 and with AtomicU32.  At a count k > 1
\* the wrapper gets a new value block holding a copy of the value and a new
\* counter block at 1, the old counter is left at k - 1 and the other clones
\* keep their handles; at count 1 nothing changes and nothing is allocated.
C15_SharedDetach ==
    [][\A s \in DOMAIN hs :
         (last'.op = "detach" /\ last'.slot = s /\ hs[s].type = "shr")
            => ShrDetachContract(s)]_vars

\* The slot of PTR_LIST (counted from 1) a handle refers to, 0 if none: the
\* reading of a handle that unlist_ptr makes.
SlotOf(level, ptr) ==
    IF level = 0 THEN ptr
    ELSE IF level > 0 /\ listed(ptr) THEN Shr(ptr, 1)
    ELSE 0

\* Whether the live wrapper h holds slot k for storage that is not released.
HoldsSlot(h, k) ==
    \/ /\ SlotOf(h.level, h.ptr) = k
       /\ PTR_LIST[k] = h.addr
       /\ h.type # "ref" => Valid(heap, h.addr)
    \/ /\ h.type = "shr"
       /\ SlotOf(RfcLevel, h.rfc) = k
       /\ PTR_LIST[k] = h.raddr
       /\ Valid(heap, h.raddr)

C18_DetachTerminates ==
    [][\A s \in DOMAIN hs :
         (/\ last'.op \in {"write", "detach", "clone", "drop"} /\ last'.slot = s
          /\ hs[s].type = "cnt" /\ hs[s].cow /\ hs[s].live
          /\ Valid(heap, hs[s].addr)
          /\ heap[hs[s].addr].cnt > 1)
            => /\ last'.st = "ok"
               /\ last'.allocs = 1]_vars

\* A step in which list_ptr wrote a slot: the list grew, or a slot took a
\* non-zero address it did not hold.
ListCalled ==
    \/ Len(PTR_LIST') > Len(PTR_LIST)
    \/ \E k \in 1..Len(PTR_LIST) :
         k <= Len(PTR_LIST') /\ PTR_LIST'[k] # 0 /\ PTR_LIST'[k] # PTR_LIST[k]

\* C19: the cursor invariant.  In every step the cursor _NULL_IDX does not
\* decrease and does not exceed the list's length; after every step in which
\* list_ptr ran it equals the length; a drop that only unlists zeroes the slot
\* its handle refers to and nothing else, and changes neither the length nor
\* the cursor.
C19_CursorInvariant ==
    [][/\ NULL_IDX' >= NULL_IDX
       /\ NULL_IDX' <= Len(PTR_LIST')
       /\ ListCalled => NULL_IDX' = Len(PTR_LIST')
       /\ \A s \in DOMAIN hs :
            (last'.op = "drop" /\ last'.slot = s /\ last'.allocs = 0)
              => /\ Len(PTR_LIST') = Len(PTR_LIST)
                 /\ NULL_IDX' = NULL_IDX
                 /\ \A k \in 1..Len(PTR_LIST) :
                      PTR_LIST'[k] # PTR_LIST[k]
                        => k = SlotOf(hs[s].level, hs[s].ptr) /\ PTR_LIST'[k] = 0]_vars

\* A list call after an unlist call: the zeroed slot stays behind the cursor.
C19_Witness ==
    /\ last.op # "drop" /\ last.st = "ok"
    /\ Len(PTR_LIST) = 2
    /\ PTR_LIST[1] = 0 /\ PTR_LIST[2] # 0
    /\ NULL_IDX = 2

\* C20: the extent of the copy of a detach.  For a value of every size the
\* copy completes and moves size_of::<T>() bytes: the new block holds the old
\* block's bytes and the memory behind the new block is as it was.
C20_CopyExtent ==
    (cpy # <<>> /\ cpy.pc = "copied") =>
        /\ cpy.st = "ok"
        /\ cpy.moved = cpy.size
        /\ \A i \in 1..Extent :
             cpy.new[i] = IF i <= cpy.size THEN cpy.old[i] ELSE 0

\* The calls the threads 1..n have completed.
RECURSIVE CallsDone(_)
CallsDone(n) == IF n = 0 THEN 0 ELSE th[n].calls - th[n].left + CallsDone(n - 1)

\* C14: concurrent atomic counting.  Under every interleaving the Counter is 1
\* plus the calls of increase_count() completed, so that when T threads have
\* each completed their N calls it is 1 + T * N.
C14_AtomicCounting ==
    th # <<>> =>
        /\ ctr.atomic = 1 + CallsDone(Len(th))
        /\ (\A t \in DOMAIN th : th[t].pc = "done")
              => ctr.atomic = 1 + Len(th) * th[1].calls

\* Several threads, each through with several calls.
C14_Witness ==
    /\ th # <<>>
    /\ Len(th) = MaxThreads
    /\ \A t \in DOMAIN th : th[t].pc = "done" /\ th[t].calls > 1 /\ th[t].left = 0
    /\ ctr.op = "increase"

\* Two threads that both found the mask unset, both wrote it and returned,
\* for addresses whose high bits differ.
BothSet(t, u) ==
    /\ t # u
    /\ th[t].pc = "done" /\ th[u].pc = "done"
    /\ th[t].saw /\ th[u].saw
    /\ HighBits(th[t].level, th[t].addr) # HighBits(th[u].level, th[u].addr)

\* C13: the race for the mask.  When two threads have both found the mask
\* unset and both written it, for addresses whose high bits differ, the one
\* whose mask was overwritten holds a handle that does not decompress to the
\* address it compressed.
C13_MaskRace ==
    th # <<>> =>
        \A t \in DOMAIN th, u \in DOMAIN th :
            BothSet(t, u) =>
                \E l \in {t, u} :
                    /\ PairMask(th[l].level, th[l].newAlloc) # HighBits(th[l].level, th[l].addr)
                    /\ get_ptr(th[l].newAlloc, th[l].level, th[l].handle) # th[l].addr

\* The interleaving: both threads found the mask unset and both wrote it.
C13_Witness ==
    /\ th # <<>>
    /\ \E t \in DOMAIN th, u \in DOMAIN th :
         /\ BothSet(t, u)
         /\ PairMask(th[t].level, th[t].newAlloc) = HighBits(th[t].level, th[t].addr)
         /\ get_ptr(th[u].newAlloc, th[u].level, th[u].handle) # th[u].addr

\* The threads that hold a handle list_ptr returned to them.
Holders == {t \in DOMAIN th : th[t].pc \in {"listed", "resolved"}}

\* C17: mutual exclusion on the pointer list.  One thread at most holds the
\* guard and none waits for it while holding it; when list_ptr is about to
\* return, the list, the cursor and the handle are those of one list_ptr call
\* made on the list as it was when the guard was taken; no two threads hold
\* handles of one slot, every handle's slot holds the address listed for it,
\* and every handle resolves to that address.
C17_TableExclusion ==
    th # <<>> =>
        /\ \A t \in DOMAIN th, u \in DOMAIN th : (th[t].holds /\ th[u].holds) => t = u
        /\ \A t \in DOMAIN th : th[t].pc = "lock" => ~th[t].holds
        /\ \A t \in DOMAIN th :
             th[t].pc = "unlock" =>
                \E r \in {list_ptr(th[t].list0, th[t].idx0, th[t].level = 0, th[t].addr)} :
                    /\ PTR_LIST = r.list
                    /\ NULL_IDX = r.nullIdx
                    /\ th[t].handle = r.ret
        /\ \A t \in Holders, u \in Holders :
             t # u => SlotOf(th[t].level, th[t].handle) # SlotOf(th[u].level, th[u].handle)
        /\ \A t \in Holders :
             /\ SlotOf(th[t].level, th[t].handle) \in 1..Len(PTR_LIST)
             /\ PTR_LIST[SlotOf(th[t].level, th[t].handle)] = th[t].addr
        /\ \A t \in DOMAIN th : th[t].pc = "resolved" => th[t].res = th[t].addr

\* Two threads hold handles at once, one of them resolved, after an unlist.
C17_Witness ==
    /\ th # <<>>
    /\ \E t \in Holders, u \in Holders :
         /\ t # u
         /\ th[t].pc = "resolved" /\ th[t].res = th[t].addr
         /\ th[t].addr # th[u].addr
    /\ \E k \in 1..Len(PTR_LIST) : PTR_LIST[k] = 0

\* C6: the Counter contract, for u32 and for AtomicU32: increase stores and
\* returns the count plus 1, decrease stores and returns the count minus 1,
\* current returns the count and leaves it, reset stores 1; and the two
\* implementations return the same values for the same calls.
C6_CounterContract ==
    /\ ctr.op = "increase" =>
          /\ ctr.plain = ctr.plainWas + 1 /\ ctr.plainRet = ctr.plain
          /\ ctr.atomic = ctr.atomicWas + 1 /\ ctr.atomicRet = ctr.atomic
    /\ ctr.op = "decrease" =>
          /\ ctr.plain = ctr.plainWas - 1 /\ ctr.plainRet = ctr.plain
          /\ ctr.atomic = ctr.atomicWas - 1 /\ ctr.atomicRet = ctr.atomic
    /\ ctr.op = "current" =>
          /\ ctr.plain = ctr.plainWas /\ ctr.plainRet = ctr.plain
          /\ ctr.atomic = ctr.atomicWas /\ ctr.atomicRet = ctr.atomic
    /\ ctr.op = "reset" => (ctr.plain = 1 /\ ctr.atomic = 1)
    /\ ctr.op \in {"increase", "decrease", "current"} => ctr.plainRet = ctr.atomicRet

====
